---- MODULE Spec2Model ----
(***************************************************************************)
(* Model of sync.py (K-Pop Bangers audio->video helper, v0.7.0):           *)
(*   canonical()  - text canonicalisation with the OVERRIDES table         *)
(*   ledger()     - positional diff of the Apple list against a Plex list  *)
(*   the audio sync block and the video "missing" block of the main script *)
(***************************************************************************)
EXTENDS Integers, Sequences, FiniteSets, TLC

VARIABLES
    src,          \* apple: canonical key of every source entry; idx = position
    items,        \* canonical key of every Plex playlist item, in playlist order
    isVideo,      \* key_fn is plex_key_video (mode "" ); otherwise audio, mode "audio-only"
    hasProcess,   \* rapidfuzz imported (process is not None)
    report,       \* args.report
    pc,           \* position of the main script
    rows,         \* ledger: rows, 5-tuples (s, p, stat, label, canon key)
    rows_simple,  \* ledger: rows_simple after collapsing and sort (what is printed)
    stats,        \* ledger: stats
    seen,         \* ledger: seen
    dup,          \* ledger: dup
    raised,       \* ledger: the sort raised TypeError
    ops,          \* main: operations of the audio sync block / video missing list
    playlist,     \* main: audio playlist after the adds
    raw,          \* canonical: input text (sequence of characters)
    useUnidecode, \* unidecode imported
    canon1,       \* canonical(raw)
    canon2        \* canonical(canonical(raw))

vars == <<src, items, isVideo, hasProcess, report, pc, rows, rows_simple, stats,
          seen, dup, raised, ops, playlist, raw, useUnidecode, canon1, canon2>>

ledgerVars == <<src, items, isVideo, hasProcess, report, rows, rows_simple, stats,
                seen, dup, raised, ops, playlist>>
canonVars == <<raw, useUnidecode, canon1, canon2>>

----------------------------------------------------------------------------
(* Bounds and inputs *)

MaxSrc == 3
MaxItems == 3

Keys == {"a", "b", "c"}

SeqsUpTo(S, n) == UNION {[1..m -> S] : m \in 0..n}

----------------------------------------------------------------------------
(* ledger *)

THRESH == 90

\* the "–" marker of a row without source ordinal / without Plex position
Dash == 0

\* 1e9, the sort key of a row without source ordinal
SortSentinel == 1000000000

\* Similarity of a Plex key to an Apple key as rapidfuzz scores it (0..100):
\* "a" is near both "b" and "c", "b" and "c" are unlike each other.
Score(k, c) ==
    IF k = c THEN 100
    ELSE IF {k, c} = {"a", "b"} THEN 95
    ELSE IF {k, c} = {"a", "c"} THEN 91
    ELSE 40

MaxOf(S) == CHOOSE x \in S : \A y \in S : y <= x
MinOf(S) == CHOOSE x \in S : \A y \in S : x <= y

Ordinals(k) == {i \in DOMAIN src : src[i] = k}

SrcMapFirst == [k \in {src[i] : i \in DOMAIN src} |-> MinOf(Ordinals(k))]

\* src_map = {t["canon"]: t["idx"] for t in src}: a later entry overwrites
SrcMap == [k \in {src[i] : i \in DOMAIN src} |-> MaxOf(Ordinals(k))]

\* src_map.keys(): insertion order, i.e. order of first occurrence
RECURSIVE KeyOrder(_)
KeyOrder(n) ==
    IF n = 0 THEN <<>>
    ELSE LET prev == KeyOrder(n - 1)
         IN IF \E j \in 1..(n - 1) : src[j] = src[n] THEN prev
            ELSE Append(prev, src[n])

SrcKeys == KeyOrder(Len(src))

\* process.extractOne(k, choices): best score, the first of equals; None on no choices
ExtractOne(k, choices) ==
    IF choices = <<>> THEN [found |-> FALSE, key |-> "", score |-> 0]
    ELSE LET best == MaxOf({Score(k, choices[i]) : i \in DOMAIN choices})
             at == MinOf({i \in DOMAIN choices : Score(k, choices[i]) = best})
         IN [found |-> TRUE, key |-> choices[at], score |-> best]

PlexLabel(p) == [who |-> "plex", at |-> p, x |-> 0]
AppleLabel(i) == [who |-> "apple", at |-> i, x |-> 0]

StatOfFlipped(offs) ==
    IF offs = 0 THEN [kind |-> "same", n |-> 0]
    ELSE IF offs > 0 THEN [kind |-> "down", n |-> offs]
    ELSE [kind |-> "up", n |-> 0 - offs]

\* stat = "·" if offs == 0 else ("↑"+abs if offs>0 else "↓"+abs)
StatOf(offs) ==
    IF offs = 0 THEN [kind |-> "same", n |-> 0]
    ELSE IF offs > 0 THEN [kind |-> "up", n |-> offs]
    ELSE [kind |-> "down", n |-> 0 - offs]

CountMoveEither(st, offs) ==
    [st EXCEPT !.up = IF offs # 0 THEN @ + 1 ELSE @]

\* if offs>0: stats["up"]+=1;  if offs<0: stats["down"]+=1
CountMove(st, offs) ==
    [st EXCEPT !.up = IF offs > 0 THEN @ + 1 ELSE @,
               !.down = IF offs < 0 THEN @ + 1 ELSE @]

Row(s, p, st, lab, ck) == [s |-> s, p |-> p, st |-> st, lab |-> lab, ck |-> ck]

Acc0 ==
    [rows |-> <<>>, seen |-> {},
     stats |-> [add |-> 0, remove |-> 0, up |-> 0, down |-> 0],
     dup |-> [k \in Keys |-> 0]]

ExactOnceMatch(acc, k) == k \in DOMAIN SrcMap /\ k \notin acc.seen

\* if k in src_map
ExactMatch(acc, k) == k \in DOMAIN SrcMap

ChoicesUnseen(acc) == SelectSeq(SrcKeys, LAMBDA c : c \notin acc.seen)

\* the choices handed to extractOne: src_map.keys()
Choices(acc) == SrcKeys

\* if m and m[1]>=THRESH and m[0] not in seen
FuzzyAccept(acc, m) == m.found /\ m.score >= THRESH /\ m.key \notin acc.seen

\* mode != "audio-only": the audio call passes "audio-only", the video call ""
ReportRemovals == isVideo

\* one pass of the loop over the Plex items (lines 158-182)
ScanItem(acc, p) ==
    LET k == items[p]
        l == PlexLabel(p)
        d == IF isVideo /\ k \in DOMAIN SrcMap
             THEN [acc.dup EXCEPT ![k] = @ + 1] ELSE acc.dup
        m == ExtractOne(k, Choices(acc))
    IN IF ExactMatch(acc, k)
       THEN LET s == SrcMap[k]
                offs == p - s
            IN [rows |-> Append(acc.rows, Row(s, p, StatOf(offs), l, k)),
                seen |-> acc.seen \cup {k},
                stats |-> CountMove(acc.stats, offs),
                dup |-> d]
       ELSE IF hasProcess /\ FuzzyAccept(acc, m)
       THEN [rows |-> Append(acc.rows,
                             Row(SrcMap[m.key], p, [kind |-> "approx", n |-> 0], l, m.key)),
             seen |-> acc.seen \cup {m.key},
             stats |-> acc.stats,
             dup |-> d]
       ELSE IF ~ReportRemovals
       THEN [acc EXCEPT !.dup = d]
       ELSE [rows |-> Append(acc.rows,
                             Row(Dash, p, [kind |-> "removed", n |-> 0], l, k)),
             seen |-> acc.seen,
             stats |-> [acc.stats EXCEPT !.remove = @ + 1],
             dup |-> d]

RECURSIVE ScanItems(_)
ScanItems(n) == IF n = 0 THEN Acc0 ELSE ScanItem(ScanItems(n - 1), n)

\* for t in src: if t["canon"] not in seen: Added row (lines 184-187)
RECURSIVE ScanSrc(_, _)
ScanSrc(acc, n) ==
    IF n = 0 THEN acc
    ELSE LET prev == ScanSrc(acc, n - 1)
         IN IF src[n] \notin prev.seen
            THEN [prev EXCEPT
                    !.rows = Append(@, Row(n, Dash, [kind |-> "added", n |-> 0],
                                           AppleLabel(n), src[n])),
                    !.stats.add = @ + 1]
            ELSE prev

AnnotateFromThree(r, cnt) ==
    IF cnt > 2 /\ r.st.kind # "added" THEN [r.lab EXCEPT !.x = cnt] ELSE r.lab

\* if cnt>1 and st!="+": lab+=f" (x{cnt} variants)"
Annotate(r, cnt) ==
    IF cnt > 1 /\ r.st.kind # "added" THEN [r.lab EXCEPT !.x = cnt] ELSE r.lab

Simple(r, lab) == [s |-> r.s, p |-> r.p, st |-> r.st, lab |-> lab]

SkipRowKeepAdded(done, r) == r.ck \in done /\ r.st.kind # "added"

\* if ck in done: continue
SkipRow(done, r) == r.ck \in done

\* video: keep the first row of every canon key (lines 190-196)
RECURSIVE Collapse(_, _, _)
Collapse(rs, d, n) ==
    IF n = 0 THEN [out |-> <<>>, done |-> {}]
    ELSE LET prev == Collapse(rs, d, n - 1)
             r == rs[n]
             cnt == IF d[r.ck] = 0 THEN 1 ELSE d[r.ck]
         IN IF SkipRow(prev.done, r) THEN prev
            ELSE [out |-> Append(prev.out, Simple(r, Annotate(r, cnt))),
                  done |-> prev.done \cup {r.ck}]

RowsSimple(rs, d) ==
    IF isVideo THEN Collapse(rs, d, Len(rs)).out
    ELSE [i \in DOMAIN rs |-> Simple(rs[i], rs[i].lab)]

PrimKeyZero(r) == r.s

\* r[0] if r[0]!="–" else 1e9
PrimKey(r) == IF r.s # Dash THEN r.s ELSE SortSentinel

\* comparing the tuples (primary, r[1]) compares r[1] of two rows of one primary
\* key; an int against "–" raises TypeError
SortRaises(rs) ==
    \E i, j \in DOMAIN rs :
        /\ PrimKey(rs[i]) = PrimKey(rs[j])
        /\ (rs[i].p = Dash) # (rs[j].p = Dash)

KeyLess(a, b) ==
    \/ PrimKey(a) < PrimKey(b)
    \/ PrimKey(a) = PrimKey(b) /\ a.p < b.p

RECURSIVE InsertRow(_, _)
InsertRow(r, s) ==
    IF s = <<>> THEN <<r>>
    ELSE IF KeyLess(r, Head(s)) THEN <<r>> \o s
    ELSE <<Head(s)>> \o InsertRow(r, Tail(s))

\* rows_simple.sort(key=...): stable, ascending
RECURSIVE SortRows(_)
SortRows(s) ==
    IF s = <<>> THEN <<>>
    ELSE InsertRow(s[Len(s)], SortRows(SubSeq(s, 1, Len(s) - 1)))

Ledger ==
    /\ pc = "start"
    /\ LET acc == ScanSrc(ScanItems(Len(items)), Len(src))
           rs == RowsSimple(acc.rows, acc.dup)
       IN /\ rows' = acc.rows
          /\ seen' = acc.seen
          /\ dup' = acc.dup
          /\ IF SortRaises(rs)
             THEN /\ raised' = TRUE
                  /\ rows_simple' = rs
                  /\ stats' = stats
                  /\ pc' = "crashed"
             ELSE /\ raised' = FALSE
                  /\ rows_simple' = SortRows(rs)
                  /\ stats' = acc.stats
                  /\ pc' = IF report THEN "done"
                           ELSE IF isVideo THEN "video" ELSE "audio"
    /\ UNCHANGED <<src, items, isVideo, hasProcess, report, ops, playlist>>
    /\ UNCHANGED canonVars

----------------------------------------------------------------------------
(* main script: the audio sync block (lines 255-292) *)

Existing == {items[i] : i \in DOMAIN items}

\* if t["canon"] not in existing
NeedsAdd(i) == src[i] \notin Existing

\* for t in apple: add the library track, or warn that there is none
RECURSIVE AddOps(_, _)
AddOps(lib, n) ==
    IF n = 0 THEN <<>>
    ELSE LET prev == AddOps(lib, n - 1)
         IN IF NeedsAdd(n)
            THEN Append(prev, [op |-> IF src[n] \in lib THEN "add" ELSE "unresolved",
                               idx |-> n, to |-> 0])
            ELSE prev

AddedKeys(adds) ==
    LET a == SelectSeq(adds, LAMBDA o : o.op = "add")
    IN [i \in DOMAIN a |-> src[a[i].idx]]

\* ordered: for every apple entry the first current item of its key
RECURSIVE Ordered(_, _)
Ordered(cur, n) ==
    IF n = 0 THEN <<>>
    ELSE LET prev == Ordered(cur, n - 1)
             hit == {j \in DOMAIN cur : cur[j] = src[n]}
         IN IF hit = {} THEN prev ELSE Append(prev, MinOf(hit))

\* moveTrack(pi, idx) for idx, pi in enumerate(ordered)
MoveOps(ord) == [i \in DOMAIN ord |-> [op |-> "move", idx |-> ord[i], to |-> i - 1]]

SyncAudio ==
    /\ pc = "audio"
    /\ \E lib \in SUBSET Keys, dry \in BOOLEAN :
         LET adds == AddOps(lib, Len(src))
             cur == IF dry THEN items ELSE items \o AddedKeys(adds)
         IN /\ ops' = adds \o MoveOps(Ordered(cur, Len(src)))
            /\ playlist' = cur
    /\ pc' = "done"
    /\ UNCHANGED <<src, items, isVideo, hasProcess, report, rows, rows_simple, stats,
                   seen, dup, raised>>
    /\ UNCHANGED canonVars

\* main script: the clips to ask a URL for (lines 300-302)
Missing ==
    LET idxs == SelectSeq([i \in DOMAIN src |-> i], LAMBDA i : src[i] \notin Existing)
    IN [i \in DOMAIN idxs |-> [op |-> "missing", idx |-> idxs[i], to |-> 0]]

VideoMissing ==
    /\ pc = "video"
    /\ ops' = Missing
    /\ pc' = "done"
    /\ UNCHANGED <<src, items, isVideo, hasProcess, report, rows, rows_simple, stats,
                   seen, dup, raised, playlist>>
    /\ UNCHANGED canonVars

----------------------------------------------------------------------------
(* canonical *)

MaxParts == 3

UpperCase == <<"A", "B", "C", "D", "E", "F", "G", "H", "I", "J", "K", "L", "M",
               "N", "O", "P", "Q", "R", "S", "T", "U", "V", "W", "X", "Y", "Z">>
LowerCase == <<"a", "b", "c", "d", "e", "f", "g", "h", "i", "j", "k", "l", "m",
               "n", "o", "p", "q", "r", "s", "t", "u", "v", "w", "x", "y", "z">>
Digits == {"0", "1", "2", "3", "4", "5", "6", "7", "8", "9"}

\* "e^" stands for the one character U+00E9 (e with acute accent)
EAcute == "e^"

Range(f) == {f[i] : i \in DOMAIN f}

IsAlnum(c) == c \in Range(UpperCase) \cup Range(LowerCase) \cup Digits
IsSpace(c) == c = " "

\* str.lower()
Lower(c) ==
    IF c \in Range(UpperCase)
    THEN LowerCase[CHOOSE i \in DOMAIN UpperCase : UpperCase[i] = c]
    ELSE c

\* unidecode(raw), or the identity when unidecode is not installed
Unidecode(c) == IF useUnidecode /\ c = EAcute THEN "e" ELSE c

OVERRIDES == <<
    [bad |-> <<"j", "i", " ", "h", "o", "o", "n">>,
     good |-> <<"j", "i", "h", "o", "o", "n">>],
    [bad |-> <<" ", "j", "o", "n", "a", "s", " ", "b", "r", "o", "t", "h", "e", "r", "s">>,
     good |-> <<>>],
    [bad |-> <<"g", " ", "i", " ", "d", "l", "e">>,
     good |-> <<"i", " ", "d", "l", "e">>],
    [bad |-> <<"c", "a", "n", "t", " ", "w", "e", " ", "j", "u", "s", "t", " ",
               "l", "e", "a", "v", "e", " ", "t", "h", "e", " ", "m", "o", "n",
               "s", "t", "e", "r", " ", "a", "l", "i", "v", "e">>,
     good |-> <<"c", "a", "n", "t", " ", "w", "e", " ", "l", "e", "a", "v", "e",
                " ", "t", "h", "e", " ", "m", "o", "n", "s", "t", "e", "r", " ",
                "a", "l", "i", "v", "e">>] >>

StartsWith(t, pre) == Len(pre) <= Len(t) /\ SubSeq(t, 1, Len(pre)) = pre

\* str.replace(bad, good): every non-overlapping occurrence, left to right
RECURSIVE Replace(_, _, _)
Replace(t, bad, good) ==
    IF Len(t) < Len(bad) THEN t
    ELSE IF StartsWith(t, bad)
    THEN good \o Replace(SubSeq(t, Len(bad) + 1, Len(t)), bad, good)
    ELSE <<Head(t)>> \o Replace(Tail(t), bad, good)

\* for bad, good in OVERRIDES.items(): txt = txt.replace(bad, good)
RECURSIVE ApplyOverrides(_, _)
ApplyOverrides(t, n) ==
    IF n = 0 THEN t
    ELSE Replace(ApplyOverrides(t, n - 1), OVERRIDES[n].bad, OVERRIDES[n].good)

FirstAt(t, c) == MinOf({j \in DOMAIN t : t[j] = c})

\* _CANON_RE.sub(" ", txt): "(...)" and "[...]" up to the first closing bracket,
\* and every other character that is no letter, digit or white space
RECURSIVE CanonSub(_)
CanonSub(t) ==
    IF t = <<>> THEN <<>>
    ELSE LET c == Head(t)
             rest == Tail(t)
         IN IF c = "(" /\ \E j \in DOMAIN rest : rest[j] = ")"
            THEN <<" ">> \o CanonSub(SubSeq(rest, FirstAt(rest, ")") + 1, Len(rest)))
            ELSE IF c = "[" /\ \E j \in DOMAIN rest : rest[j] = "]"
            THEN <<" ">> \o CanonSub(SubSeq(rest, FirstAt(rest, "]") + 1, Len(rest)))
            ELSE IF ~(IsAlnum(c) \/ IsSpace(c))
            THEN <<" ">> \o CanonSub(rest)
            ELSE <<c>> \o CanonSub(rest)

\* re.sub(r"\s+", " ", txt)
RECURSIVE Squeeze(_)
Squeeze(t) ==
    IF Len(t) < 2 THEN t
    ELSE IF IsSpace(t[1]) /\ IsSpace(t[2]) THEN Squeeze(Tail(t))
    ELSE <<Head(t)>> \o Squeeze(Tail(t))

\* str.strip()
RECURSIVE Strip(_)
Strip(t) ==
    IF t = <<>> THEN t
    ELSE IF IsSpace(Head(t)) THEN Strip(Tail(t))
    ELSE IF IsSpace(t[Len(t)]) THEN Strip(SubSeq(t, 1, Len(t) - 1))
    ELSE t

canonical(t) ==
    LET txt == [i \in DOMAIN t |-> Lower(Unidecode(t[i]))]
    IN Strip(Squeeze(CanonSub(ApplyOverrides(txt, Len(OVERRIDES)))))

\* pieces the input texts are put together from
Parts == { <<"J", "i">>, <<"H", "o", "o", "n">>, <<"G">>, <<"I", "-", "D", "L", "E">>,
           <<" ">>, <<"-">>, <<"(">>, <<")">>, <<"[">>, <<"]">>, <<"7">>, <<EAcute>> }

RECURSIVE Concat(_)
Concat(ps) == IF ps = <<>> THEN <<>> ELSE Head(ps) \o Concat(Tail(ps))

Texts == {Concat(ps) : ps \in SeqsUpTo(Parts, MaxParts)}

Canonicalize ==
    /\ pc = "canon"
    /\ canon1' = canonical(raw)
    /\ pc' = "canon_once"
    /\ UNCHANGED <<raw, useUnidecode, canon2>>
    /\ UNCHANGED ledgerVars

Recanonicalize ==
    /\ pc = "canon_once"
    /\ canon2' = canonical(canon1)
    /\ pc' = "canon_twice"
    /\ UNCHANGED <<raw, useUnidecode, canon1>>
    /\ UNCHANGED ledgerVars

----------------------------------------------------------------------------
(* specifications *)

NoLedger ==
    /\ src = <<>> /\ items = <<>> /\ isVideo = FALSE /\ hasProcess = FALSE
    /\ report = FALSE /\ rows = <<>> /\ rows_simple = <<>> /\ stats = Acc0.stats
    /\ seen = {} /\ dup = Acc0.dup /\ raised = FALSE /\ ops = <<>> /\ playlist = <<>>

NoCanon == raw = <<>> /\ useUnidecode = FALSE /\ canon1 = <<>> /\ canon2 = <<>>

\* one run of ledger and the block of the main script that follows it
Init ==
    /\ src \in SeqsUpTo(Keys, MaxSrc)
    /\ items \in SeqsUpTo(Keys, MaxItems)
    /\ isVideo \in BOOLEAN
    /\ hasProcess \in BOOLEAN
    /\ report \in BOOLEAN
    /\ pc = "start"
    /\ rows = <<>> /\ rows_simple = <<>> /\ stats = Acc0.stats
    /\ seen = {} /\ dup = Acc0.dup /\ raised = FALSE /\ ops = <<>>
    /\ playlist = items
    /\ NoCanon

Next == Ledger \/ SyncAudio \/ VideoMissing

Spec == Init /\ [][Next]_vars

\* canonical applied to a text, and again to its result
InitCanon ==
    /\ raw \in Texts
    /\ useUnidecode \in BOOLEAN
    /\ canon1 = <<>> /\ canon2 = <<>>
    /\ pc = "canon"
    /\ NoLedger

NextCanon == Canonicalize \/ Recanonicalize

SpecCanon == InitCanon /\ [][NextCanon]_vars

----------------------------------------------------------------------------
(* properties *)

\* ledger has returned its stats to the main script
Returned == pc \in {"audio", "video", "done"}

Out == rows_simple
OutIdx == DOMAIN rows_simple

IsExact(r) == r.st.kind \in {"same", "up", "down"}
IsMatched(r) == IsExact(r) \/ r.st.kind = "approx"

\* targetPosition - sourceOrdinal as the status of a row tells it
Offset(r) ==
    IF r.st.kind = "up" THEN r.st.n
    ELSE IF r.st.kind = "down" THEN 0 - r.st.n
    ELSE 0

SrcKeySet == {src[i] : i \in DOMAIN src}
ItemsOf(k) == {p \in DOMAIN items : items[p] = k}
CountKind(rs, kind) == Cardinality({i \in DOMAIN rs : rs[i].st.kind = kind})

Swapped(a, b) == IsExact(a) /\ IsExact(b) /\ a.s < b.s /\ a.p > b.p

SwapCase ==
    /\ Len(src) = 2 /\ src[1] # src[2]
    /\ items = <<src[2], src[1]>>

StatusAt(ord, st) == \E i \in OutIdx : Out[i].s = ord /\ Out[i].st = st

\* C1 as stated: with source [A,B] and target [B,A], A is MovedDown(1) and B is
\* MovedUp(1); of two exactly matching rows swapped relative to source order the
\* one earlier in the source is MovedDown and the later one MovedUp.
C1_EarlierMovedDown ==
    Returned =>
        /\ SwapCase => /\ StatusAt(1, [kind |-> "down", n |-> 1])
                       /\ StatusAt(2, [kind |-> "up", n |-> 1])
        /\ \A i, j \in OutIdx :
              Swapped(Out[i], Out[j]) =>
                  Out[i].st.kind = "down" /\ Out[j].st.kind = "up"

\* C1 amended: with source [A,B] and target [B,A], A is MovedUp(1) and B is
\* MovedDown(1); an exactly matching row is Unchanged when p = s, MovedUp(p - s)
\* when p > s and MovedDown(s - p) when p < s; of two exactly matching rows
\* swapped relative to source order the one earlier in the source has the
\* strictly larger offset p - s.
C1_MoveDetection ==
    Returned =>
        /\ SwapCase => /\ StatusAt(1, [kind |-> "up", n |-> 1])
                       /\ StatusAt(2, [kind |-> "down", n |-> 1])
        /\ \A i \in OutIdx :
              IsExact(Out[i]) =>
                  Out[i].st = IF Out[i].p = Out[i].s THEN [kind |-> "same", n |-> 0]
                              ELSE IF Out[i].p > Out[i].s
                              THEN [kind |-> "up", n |-> Out[i].p - Out[i].s]
                              ELSE [kind |-> "down", n |-> Out[i].s - Out[i].p]
        /\ \A i, j \in OutIdx :
              Swapped(Out[i], Out[j]) => Offset(Out[i]) > Offset(Out[j])

C1_Witness == Returned /\ SwapCase /\ CountKind(Out, "up") = 1 /\ CountKind(Out, "down") = 1

\* C2: video mode; N >= 2 Plex items of one canon key that is the key of a source
\* entry give exactly one output row for that key's source entries, and its label
\* carries "(xN variants)", whatever else is in the Plex list.
C2_DuplicatesCollapse ==
    (Returned /\ isVideo) =>
        \A k \in SrcKeySet :
            Cardinality(ItemsOf(k)) >= 2 =>
                LET hit == {i \in OutIdx : Out[i].s \in Ordinals(k)}
                IN /\ Cardinality(hit) = 1
                   /\ \A i \in hit : Out[i].lab.x = Cardinality(ItemsOf(k))

C2_Witness ==
    /\ Returned /\ isVideo
    /\ \E k \in SrcKeySet :
          /\ Cardinality(ItemsOf(k)) >= 2
          /\ items[1] # k
          /\ \E i \in OutIdx : Out[i].lab.x = Cardinality(ItemsOf(k))

Fold(rs) ==
    [add |-> CountKind(rs, "added"), remove |-> CountKind(rs, "removed"),
     up |-> CountKind(rs, "up"), down |-> CountKind(rs, "down")]

\* C3 as stated: the stats are the counts of Added, Removed, MovedUp and
\* MovedDown rows among the output rows (after duplicate collapsing).
C3_StatsFoldOutput == Returned => stats = Fold(rows_simple)

\* C3 amended: the stats are the counts of Added, Removed, MovedUp and MovedDown
\* rows among the rows emitted before duplicate collapsing; in audio mode (no
\* collapsing) those are the output rows.
C3_StatsFoldEmitted ==
    Returned => /\ stats = Fold(rows)
                /\ ~isVideo => stats = Fold(rows_simple)

C3_Witness ==
    /\ Returned /\ isVideo
    /\ stats.up + stats.down > CountKind(Out, "up") + CountKind(Out, "down")

\* keys consumed by some Plex item (exactly or approximately)
Consumed == {rows[i].ck : i \in {j \in DOMAIN rows : IsMatched(rows[j])}}
Unconsumed == {i \in DOMAIN src : src[i] \notin Consumed}
AddedRowsFor(i) ==
    {j \in OutIdx : Out[j].st.kind = "added" /\ Out[j].s = i /\ Out[j].p = Dash}

\* C4 as stated: in both modes every source entry whose key was never consumed
\* has its own Added row in the output, also when several such entries share a
\* key; an empty Plex list gives one Added row per source entry, stats.add equal
\* to the number of source entries, and no failure.
C4_AddedNeverCollapsed ==
    /\ pc # "crashed"
    /\ Returned =>
          /\ \A i \in Unconsumed : Cardinality(AddedRowsFor(i)) = 1
          /\ items = <<>> => /\ CountKind(Out, "added") = Len(src)
                             /\ stats.add = Len(src)

\* C4 amended: in audio mode every source entry whose key was never consumed has
\* its own Added row; in video mode only the first of the unconsumed source
\* entries of one key has an Added row (the later ones are collapsed into it);
\* in both modes stats.add counts every such entry, so an empty Plex list gives
\* stats.add equal to the number of source entries, and ledger does not fail.
C4_AddedRows ==
    /\ pc # "crashed"
    /\ Returned =>
          /\ \A i \in Unconsumed :
                Cardinality(AddedRowsFor(i)) =
                    IF isVideo /\ \E j \in Unconsumed : j < i /\ src[j] = src[i]
                    THEN 0 ELSE 1
          /\ \A i \in DOMAIN src \ Unconsumed : AddedRowsFor(i) = {}
          /\ stats.add = Cardinality(Unconsumed)
          /\ items = <<>> => stats.add = Len(src)

C4_Witness ==
    /\ Returned /\ isVideo
    /\ \E i \in Unconsumed : AddedRowsFor(i) = {}

\* C5 as stated: a row matched on a key reports the smallest source ordinal that
\* carries the key, and its move offset is taken against that ordinal.
C5_FirstOccurrenceWins ==
    Returned =>
        \A i \in DOMAIN rows :
            IsMatched(rows[i]) =>
                /\ rows[i].s = MinOf(Ordinals(rows[i].ck))
                /\ IsExact(rows[i]) =>
                      Offset(rows[i]) = rows[i].p - MinOf(Ordinals(rows[i].ck))

\* C5 amended: a row matched on a key reports the largest source ordinal that
\* carries the key (the last such entry in source order), and its move offset is
\* taken against that ordinal.
C5_LastOccurrenceWins ==
    Returned =>
        \A i \in DOMAIN rows :
            IsMatched(rows[i]) =>
                /\ rows[i].s = MaxOf(Ordinals(rows[i].ck))
                /\ IsExact(rows[i]) =>
                      Offset(rows[i]) = rows[i].p - MaxOf(Ordinals(rows[i].ck))

C5_Witness ==
    /\ Returned
    /\ \E i \in DOMAIN rows :
          IsMatched(rows[i]) /\ Cardinality(Ordinals(rows[i].ck)) >= 2

PlannedAdds ==
    {ops[i].idx : i \in {j \in DOMAIN ops : ops[j].op \in {"add", "unresolved"}}}
LedgerAdded == {Out[i].s : i \in {j \in OutIdx : Out[j].st.kind = "added"}}

\* C6: after the audio sync block, a source entry has an Add operation or an
\* unresolved report if and only if the audio ledger gave it an Added row.
C6_AddsAreLedgerAdded ==
    (pc = "done" /\ ~isVideo /\ ~report) => PlannedAdds = LedgerAdded

\* C7: canonical(canonical(x)) = canonical(x) for every text x.
C7_CanonicalIdempotent == pc = "canon_twice" => canon2 = canon1

ConsumedBefore(p) ==
    {rows[i].ck : i \in {j \in DOMAIN rows : IsMatched(rows[j]) /\ rows[j].p < p}}
RowsAt(p) == {i \in DOMAIN rows : rows[i].p = p}

\* C8 as stated: a Plex item is matched exactly only on a key no earlier item
\* consumed, so in audio mode no two output rows carry the same source ordinal.
C8_OrdinalAtMostOnce ==
    Returned =>
        /\ \A i \in DOMAIN rows :
              IsExact(rows[i]) => rows[i].ck \notin ConsumedBefore(rows[i].p)
        /\ ~isVideo => \A i, j \in OutIdx : i # j => Out[i].s # Out[j].s

\* C8 amended: a Plex item is matched exactly whenever its key is a source key,
\* whether or not an earlier item consumed that key; so in audio mode two output
\* rows carry the same source ordinal only when the one later in Plex order is
\* an exact match (an Added row never shares its ordinal).
C8_ExactIgnoresConsumed ==
    Returned =>
        /\ \A p \in DOMAIN items :
              items[p] \in SrcKeySet =>
                  \E i \in RowsAt(p) : IsExact(rows[i]) /\ rows[i].ck = items[p]
        /\ ~isVideo =>
              \A i, j \in OutIdx :
                  (i # j /\ Out[i].s = Out[j].s /\ Out[i].p <= Out[j].p) =>
                      /\ Out[i].p # Dash
                      /\ Out[i].p < Out[j].p
                      /\ IsExact(Out[j])

C8_Witness ==
    /\ Returned /\ ~isVideo
    /\ \E i, j \in OutIdx : i # j /\ Out[i].s = Out[j].s

\* the Plex items that reach the approximate fallback
Inexact(p) == items[p] \notin SrcKeySet

\* the keys of S scoring best against k, and the first of them in source order
BestIn(k, S) == {c \in S : \A d \in S : Score(k, d) <= Score(k, c)}
FirstOrd(c) == MinOf(Ordinals(c))
FirstBest(k, S) ==
    {c \in BestIn(k, S) : \A d \in BestIn(k, S) : FirstOrd(c) <= FirstOrd(d)}

ApproxAt(p, good) ==
    \E i \in RowsAt(p) :
        /\ rows[i].st.kind = "approx"
        /\ rows[i].ck \in good
        /\ rows[i].s \in Ordinals(rows[i].ck)

NotMatchedAt(p) ==
    /\ \A i \in RowsAt(p) : rows[i].st.kind = "removed"
    /\ RowsAt(p) # {} <=> isVideo

\* C9 as stated: with a similarity function, the candidate of an inexact Plex
\* item is the best scoring key among the source keys no earlier item consumed;
\* the item is Approximate against it when it scores at least 90, and Removed
\* or suppressed only when no unconsumed source key reaches 90.
C9_BestOfUnconsumed ==
    (Returned /\ hasProcess) =>
        \A p \in DOMAIN items :
            Inexact(p) =>
                LET U == SrcKeySet \ ConsumedBefore(p)
                    good == {c \in FirstBest(items[p], U) : Score(items[p], c) >= THRESH}
                IN IF good # {} THEN ApproxAt(p, good) ELSE NotMatchedAt(p)

\* C9 amended: with a similarity function, the candidate of an inexact Plex item
\* is the best scoring key among all source keys, consumed ones included; the
\* item is Approximate against it when it scores at least 90 and no earlier item
\* consumed it, and otherwise Removed or suppressed, also when another source
\* key that is not consumed reaches 90.
C9_BestOfAll ==
    (Returned /\ hasProcess) =>
        \A p \in DOMAIN items :
            Inexact(p) =>
                LET good == {c \in FirstBest(items[p], SrcKeySet) :
                                /\ Score(items[p], c) >= THRESH
                                /\ c \notin ConsumedBefore(p)}
                IN IF good # {} THEN ApproxAt(p, good) ELSE NotMatchedAt(p)

C9_Witness ==
    /\ Returned /\ hasProcess
    /\ \E p \in DOMAIN items :
          /\ Inexact(p)
          /\ FirstBest(items[p], SrcKeySet) \subseteq ConsumedBefore(p)
          /\ \E c \in SrcKeySet \ ConsumedBefore(p) : Score(items[p], c) >= THRESH
          /\ NotMatchedAt(p)

\* C10: the sort never fails; output rows are in non-decreasing order of source
\* ordinal with the rows without source ordinal after all others; rows of one
\* primary key are in ascending Plex position, and no two rows of one primary
\* key differ in whether they have a Plex position.
C10_RowOrder ==
    /\ pc # "crashed"
    /\ ~raised
    /\ Returned =>
          \A i, j \in OutIdx :
              i < j =>
                  /\ Out[j].s # Dash => (Out[i].s # Dash /\ Out[i].s <= Out[j].s)
                  /\ Out[i].s = Out[j].s =>
                        /\ (Out[i].p = Dash) <=> (Out[j].p = Dash)
                        /\ Out[i].p <= Out[j].p

C10_Witness ==
    /\ Returned
    /\ CountKind(Out, "removed") >= 2
    /\ \E i, j \in DOMAIN rows : i < j /\ rows[i].s = Dash /\ rows[j].s # Dash

====
